---- MODULE Spec2Model ----
(***************************************************************************)
(* Debt tracker: the App component's state (debts, payments, selection,    *)
(* advisory cache), its localStorage persistence and legacy migration, its *)
(* command handlers and the asynchronous advisory call.                    *)
(***************************************************************************)
EXTENDS Integers, Sequences, FiniteSets, TLC

VARIABLES
  debts,          \* useState<Debt[]>
  payments,       \* useState<Payment[]>
  selectedDebtId, \* useState<string | null>
  aiAnalysis,     \* useState<AnalysisResult | null>
  loadingAi,      \* useState(false)
  inflight,       \* pending analyzeDebtProgress promises of handleGetAnalysis
  localStorage,   \* the browser's blob store, by key
  hasApiKey,      \* process.env.API_KEY is a non-empty string
  phase,          \* position in the mount / re-render effect sequence
  nextId,         \* the ids crypto.randomUUID() has given out so far, plus one
  last            \* the step just taken and its inputs (observer)

vars == <<debts, payments, selectedDebtId, aiAnalysis, loadingAi, inflight,
          localStorage, hasApiKey, phase, nextId, last>>

----------------------------------------------------------------------------
\* Bounds of the model

MaxIds == 4        \* calls of crypto.randomUUID() in one behaviour
MaxInFlight == 1   \* advisory requests pending at once

----------------------------------------------------------------------------
\* Values

Null == 0   \* null as a selectedDebtId; ids are positive

\* JavaScript numbers: finite values, NaN, Infinity, and JSON's null in their place
Fin(n) == [k |-> "fin", n |-> n]
NaN == [k |-> "nan", n |-> 0]
Infinity == [k |-> "inf", n |-> 0]
JsonNull == [k |-> "null", n |-> 0]

\* x > 0 in JavaScript
GreaterThanZero(x) == (x.k = "fin" /\ x.n > 0) \/ x.k = "inf"

\* x <= 0 in JavaScript (false for NaN)
LessOrEqualZero(x) == x.k = "fin" /\ x.n <= 0

isNaN(x) == x.k = "nan"

\* parseFloat on the form strings the model enters
parseFloat(s) ==
  CASE s = "10" -> Fin(10)
    [] s = "4" -> Fin(4)
    [] s = "6" -> Fin(6)
    [] s = "0" -> Fin(0)
    [] s = "-5" -> Fin(-5)
    [] s = "Infinity" -> Infinity
    [] s = "1000" -> Fin(1000)
    [] s = "400" -> Fin(400)
    [] s = "200" -> Fin(200)
    [] s = "300" -> Fin(300)
    [] s = "600" -> Fin(600)
    [] OTHER -> NaN

\* Arithmetic on these. null counts as 0; -Infinity arises from a division
NegInfinity == [k |-> "ninf", n |-> 0]

ToNumber(x) == IF x.k = "null" THEN Fin(0) ELSE x

\* a + b
Plus(a, b) ==
  LET x == ToNumber(a)
      y == ToNumber(b)
  IN IF x.k = "nan" \/ y.k = "nan" THEN NaN
     ELSE IF x.k = "fin" /\ y.k = "fin" THEN Fin(x.n + y.n)
     ELSE IF x.k = "fin" THEN y
     ELSE IF y.k = "fin" \/ y.k = x.k THEN x
     ELSE NaN

\* -b
Negated(b) ==
  LET y == ToNumber(b)
  IN CASE y.k = "fin" -> Fin(0 - y.n)
       [] y.k = "inf" -> NegInfinity
       [] y.k = "ninf" -> Infinity
       [] OTHER -> NaN

\* a - b
Minus(a, b) == Plus(a, Negated(b))

\* (a / b) * 100. The quotient is exact for the amounts of the model: every
\* total divides a hundred times every sum of amounts
TimesHundredOver(a, b) ==
  LET x == ToNumber(a)
      y == ToNumber(b)
      positive(z) == z.k = "inf" \/ (z.k = "fin" /\ z.n > 0)
  IN IF x.k = "nan" \/ y.k = "nan" THEN NaN
     ELSE IF y.k \in {"inf", "ninf"}
          THEN IF x.k = "fin" THEN Fin(0) ELSE NaN
     ELSE IF y.n = 0
          THEN IF x.k = "fin" /\ x.n = 0 THEN NaN
               ELSE IF positive(x) THEN Infinity ELSE NegInfinity
     ELSE IF x.k = "fin" THEN Fin((x.n * 100) \div y.n)
     ELSE IF positive(x) = positive(y) THEN Infinity ELSE NegInfinity

\* Math.max(0, x)
MathMaxZero(x) ==
  LET y == ToNumber(x)
  IN CASE y.k = "nan" -> NaN
       [] y.k = "inf" -> Infinity
       [] y.k = "ninf" -> Fin(0)
       [] OTHER -> IF y.n > 0 THEN y ELSE Fin(0)

\* Math.min(100, x)
MathMinHundred(x) ==
  LET y == ToNumber(x)
  IN CASE y.k = "nan" -> NaN
       [] y.k = "inf" -> Fin(100)
       [] y.k = "ninf" -> NegInfinity
       [] OTHER -> IF y.n < 100 THEN y ELSE Fin(100)

\* Storage keys
STORAGE_KEY_DEBTS == "debt_tracker_debts_v1"
STORAGE_KEY_PAYMENTS == "debt_tracker_payments_v2"
LEGACY_STORAGE_SETTINGS == "debt_tracker_settings_v1"
LEGACY_STORAGE_PAYMENTS == "debt_tracker_payments_v1"

StorageKeys == {STORAGE_KEY_DEBTS, STORAGE_KEY_PAYMENTS,
                LEGACY_STORAGE_SETTINGS, LEGACY_STORAGE_PAYMENTS}

\* What a key holds: nothing (getItem gives null), text that is no JSON, or
\* JSON text, kept as the value it parses to
NoItem == [t |-> "none"]
BadText == [t |-> "bad"]
JsonText(v) == [t |-> "json", v |-> v]

\* `if (item)` on the result of getItem
Truthy(item) == item.t # "none"

\* JSON.parse throws on this text
ParseThrows(item) == item.t = "bad"

JSONparse(item) == item.v

\* The fields that hold numbers: JSON.stringify writes NaN and Infinity as null
NumberFields == {"totalAmount", "amount"}

JsonNumber(x) == IF x.k \in {"nan", "inf"} THEN JsonNull ELSE x

JsonRecord(r) ==
  [f \in DOMAIN r |-> IF f \in NumberFields THEN JsonNumber(r[f]) ELSE r[f]]

\* JSON.stringify of an array of records
JSONstringify(arr) == JsonText([i \in 1..Len(arr) |-> JsonRecord(arr[i])])

setItem(store, key, text) == [store EXCEPT ![key] = text]

----------------------------------------------------------------------------
\* Sequences

RECURSIVE SelectSeqRec(_, _)
SelectSeqRec(s, keep) ==
  IF s = <<>> THEN <<>>
  ELSE IF keep[1] THEN <<Head(s)>> \o SelectSeqRec(Tail(s), Tail(keep))
       ELSE SelectSeqRec(Tail(s), Tail(keep))

\* prev.filter(d => d.id !== debtId)
FilterDebtsNot(ds, debtId) ==
  SelectSeqRec(ds, [i \in 1..Len(ds) |-> ds[i].id # debtId])

\* prev.filter(p => p.debtId !== debtId)
FilterPaymentsNotOfDebt(ps, debtId) ==
  SelectSeqRec(ps, [i \in 1..Len(ps) |-> ps[i].debtId # debtId])

\* (mutant) the payment's debtId compared with the id
FilterPaymentsNotByDebt(ps, id) ==
  SelectSeqRec(ps, [i \in 1..Len(ps) |-> ps[i].debtId # id])

\* prev.filter(p => p.id !== id)
FilterPaymentsNot(ps, id) ==
  SelectSeqRec(ps, [i \in 1..Len(ps) |-> ps[i].id # id])

\* payments.filter(p => p.debtId === selectedDebtId)
FilterPaymentsOfDebt(ps, debtId) ==
  SelectSeqRec(ps, [i \in 1..Len(ps) |-> ps[i].debtId = debtId])

DebtIds(ds) == {ds[i].id : i \in 1..Len(ds)}
PaymentIds(ps) == {ps[i].id : i \in 1..Len(ps)}
PaymentDebtIds(ps) == {ps[i].debtId : i \in 1..Len(ps)}

\* debts.find(d => d.id === selectedDebtId) || null, as "is there one"
HasSelectedDebt == selectedDebtId \in DebtIds(debts)

selectedDebt == CHOOSE d \in {debts[i] : i \in 1..Len(debts)} : d.id = selectedDebtId

currentDebtPayments == FilterPaymentsOfDebt(payments, selectedDebtId)

----------------------------------------------------------------------------
\* Derived data

\* ps.reduce((acc, curr) => acc + curr.amount, acc)
RECURSIVE ReduceAmounts(_, _)
ReduceAmounts(ps, acc) ==
  IF ps = <<>> THEN acc ELSE ReduceAmounts(Tail(ps), Plus(acc, Head(ps).amount))

\* The detail view's values, for the selected debt
totalPaid == ReduceAmounts(currentDebtPayments, Fin(0))

remainingDebt ==
  IF HasSelectedDebt THEN MathMaxZero(Minus(selectedDebt.totalAmount, totalPaid)) ELSE Fin(0)

progressPercentage ==
  IF HasSelectedDebt
  THEN MathMinHundred(TimesHundredOver(totalPaid, selectedDebt.totalAmount))
  ELSE Fin(0)

\* (mutant) the card's payments not filtered by debt
CardPaymentsAll(debt) == payments

\* The dashboard card's values, for each debt of debts.map
CardPayments(debt) ==
  SelectSeqRec(payments, [i \in 1..Len(payments) |-> payments[i].debtId = debt.id])

CardPaid(debt) == ReduceAmounts(CardPayments(debt), Fin(0))
CardPct(debt) == MathMinHundred(TimesHundredOver(CardPaid(debt), debt.totalAmount))
CardRemaining(debt) == MathMaxZero(Minus(debt.totalAmount, CardPaid(debt)))

\* new Date(dateStr).getTime(), in days since 2024-01-01 (the dates of the
\* model are whole days)
getTime(dateStr) ==
  CASE dateStr = "2024-01-01" -> 0
    [] dateStr = "2024-01-15" -> 14
    [] dateStr = "2024-02-01" -> 31
    [] dateStr = "2024-03-01T00:00:00.000Z" -> 60

\* formatDate: toLocaleDateString("es-ES", day numeric, month short, year numeric)
formatDate(dateStr) ==
  CASE dateStr = "2024-01-01" -> "1 ene 2024"
    [] dateStr = "2024-01-15" -> "15 ene 2024"
    [] dateStr = "2024-02-01" -> "1 feb 2024"
    [] dateStr = "2024-03-01T00:00:00.000Z" -> "1 mar 2024"

\* (mutant) a sort that puts a payment before those of its own date
InsertByDateUnstable(sorted, payment) ==
  LET before == {i \in 1..Len(sorted) : getTime(sorted[i].date) < getTime(payment.date)}
      k == Cardinality(before)
  IN SubSeq(sorted, 1, k) \o <<payment>> \o SubSeq(sorted, k + 1, Len(sorted))

\* One step of the sort: the payment goes after the payments that do not
\* compare greater (Array.prototype.sort is stable)
InsertByDate(sorted, payment) ==
  LET before == {i \in 1..Len(sorted) :
                   getTime(sorted[i].date) - getTime(payment.date) <= 0}
      k == Cardinality(before)
  IN SubSeq(sorted, 1, k) \o <<payment>> \o SubSeq(sorted, k + 1, Len(sorted))

\* [...ps].sort((a, b) => new Date(a.date).getTime() - new Date(b.date).getTime())
RECURSIVE SortByDate(_)
SortByDate(ps) ==
  IF ps = <<>> THEN <<>>
  ELSE InsertByDate(SortByDate(SubSeq(ps, 1, Len(ps) - 1)), ps[Len(ps)])

\* currentBalance after the first i payments of sortedPayments
RECURSIVE CurrentBalance(_, _, _)
CurrentBalance(total, sortedPayments, i) ==
  IF i = 0 THEN total
  ELSE Minus(CurrentBalance(total, sortedPayments, i - 1), sortedPayments[i].amount)

chartData ==
  IF ~HasSelectedDebt THEN <<>>
  ELSE LET sortedPayments == SortByDate(currentDebtPayments)
       IN <<[date |-> formatDate(selectedDebt.startDate),
             balance |-> selectedDebt.totalAmount,
             paid |-> Fin(0)]>>
          \o [i \in 1..Len(sortedPayments) |->
                [date |-> formatDate(sortedPayments[i].date),
                 balance |-> MathMaxZero(CurrentBalance(selectedDebt.totalAmount,
                                                        sortedPayments, i)),
                 paid |-> sortedPayments[i].amount]]

----------------------------------------------------------------------------
\* Identifiers

\* crypto.randomUUID(): an id never given out before
randomUUID == nextId

\* new Date().toISOString()
NowIso == "2024-03-01T00:00:00.000Z"

----------------------------------------------------------------------------
\* Persistence effects

\* (mutant) the else dropped: an existing key is always overwritten by "[]"
DebtsEffectNoElse(store, ds) ==
  LET written == IF Len(ds) > 0
                 THEN setItem(store, STORAGE_KEY_DEBTS, JSONstringify(ds))
                 ELSE store
  IN IF Truthy(written[STORAGE_KEY_DEBTS])
     THEN setItem(written, STORAGE_KEY_DEBTS, JSONstringify(<<>>))
     ELSE written

\* useEffect(..., [debts])
DebtsEffect(store, ds) ==
  IF Len(ds) > 0
  THEN setItem(store, STORAGE_KEY_DEBTS, JSONstringify(ds))
  ELSE IF Truthy(store[STORAGE_KEY_DEBTS])
       THEN setItem(store, STORAGE_KEY_DEBTS, JSONstringify(<<>>))
       ELSE store

\* useEffect(..., [payments, debts])
PaymentsEffect(store, ds, ps) ==
  IF Len(ps) > 0 \/ Len(ds) > 0
  THEN setItem(store, STORAGE_KEY_PAYMENTS, JSONstringify(ps))
  ELSE store

\* The effects of the render that follows setDebts (and maybe setPayments)
AfterDebtsChange(store, ds, ps) == PaymentsEffect(DebtsEffect(store, ds), ds, ps)

\* The effect of the render that follows setPayments alone
AfterPaymentsChange(store, ds, ps) == PaymentsEffect(store, ds, ps)

----------------------------------------------------------------------------
\* Initialization and migration

MigratedDebt(oldSettings, newId) ==
  [id |-> newId,
   creditorName |-> oldSettings.creditorName,
   totalAmount |-> oldSettings.totalAmount,
   startDate |-> oldSettings.startDate]

\* (mutant) the payments tagged with their own id instead of the new debt's
MigratedPaymentsMistagged(oldPayments, newId) ==
  [i \in 1..Len(oldPayments) |->
     [f \in DOMAIN oldPayments[i] \cup {"debtId"} |->
        IF f = "debtId" THEN oldPayments[i].id ELSE oldPayments[i][f]]]

\* oldPayments.map(p => ({...p, debtId: newId}))
MigratedPayments(oldPayments, newId) ==
  [i \in 1..Len(oldPayments) |->
     [f \in DOMAIN oldPayments[i] \cup {"debtId"} |->
        IF f = "debtId" THEN newId ELSE oldPayments[i][f]]]

\* The initialization effect when it sets nothing
NothingLoaded(store) ==
  [crashed |-> FALSE, set |-> FALSE, migrated |-> FALSE,
   debts |-> <<>>, payments |-> <<>>, store |-> store]

\* (mutant) the emptied debts key taken for a missing one
HasStoredDebtsNonEmpty(storedDebts) ==
  storedDebts.t = "bad" \/ (storedDebts.t = "json" /\ Len(storedDebts.v) > 0)

\* `if (storedDebts)`: the text "[]" is truthy
HasStoredDebts(storedDebts) == Truthy(storedDebts)

\* (mutant) setDebts and the write of the debts key moved before the parse of
\* the legacy payments
PaymentsParseCaughtPartial(store, newId) ==
  LET migratedDebt == MigratedDebt(JSONparse(store[LEGACY_STORAGE_SETTINGS]), newId)
  IN [crashed |-> FALSE, set |-> TRUE, migrated |-> TRUE,
      debts |-> <<migratedDebt>>, payments |-> <<>>,
      store |-> setItem(store, STORAGE_KEY_DEBTS, JSONstringify(<<migratedDebt>>))]

\* The catch block when JSON.parse(legacyPaymentsStr) threw: newId and
\* migratedDebt were built, no state was set and nothing was written
PaymentsParseCaught(store, newId) == NothingLoaded(store)

\* What the initialization effect does, given the store it reads:
\* the state it sets (set: setDebts was called), the store it leaves, and
\* whether JSON.parse threw outside the try block
LoadResult(store, newId) ==
  LET storedDebts == store[STORAGE_KEY_DEBTS]
      storedPayments == store[STORAGE_KEY_PAYMENTS]
      legacySettings == store[LEGACY_STORAGE_SETTINGS]
      legacyPaymentsStr == store[LEGACY_STORAGE_PAYMENTS]
      nothing == NothingLoaded(store)
  IN IF HasStoredDebts(storedDebts)
     THEN IF ParseThrows(storedDebts) \/ (Truthy(storedPayments) /\ ParseThrows(storedPayments))
          THEN [nothing EXCEPT !.crashed = TRUE]
          ELSE [crashed |-> FALSE, set |-> TRUE, migrated |-> FALSE,
                debts |-> JSONparse(storedDebts),
                payments |-> IF Truthy(storedPayments) THEN JSONparse(storedPayments) ELSE <<>>,
                store |-> store]
     ELSE IF ~Truthy(legacySettings) THEN nothing
     ELSE IF ParseThrows(legacySettings) THEN nothing
     ELSE IF ~JSONparse(legacySettings).isSet THEN nothing
     ELSE IF Truthy(legacyPaymentsStr) /\ ParseThrows(legacyPaymentsStr)
          THEN PaymentsParseCaught(store, newId)
     ELSE LET migratedDebt == MigratedDebt(JSONparse(legacySettings), newId)
              migratedPayments ==
                IF Truthy(legacyPaymentsStr)
                THEN MigratedPayments(JSONparse(legacyPaymentsStr), newId)
                ELSE <<>>
          IN [crashed |-> FALSE, set |-> TRUE, migrated |-> TRUE,
              debts |-> <<migratedDebt>>,
              payments |-> migratedPayments,
              store |-> setItem(setItem(store, STORAGE_KEY_DEBTS, JSONstringify(<<migratedDebt>>)),
                                STORAGE_KEY_PAYMENTS, JSONstringify(migratedPayments))]

\* The initialization effect of the first render
Load ==
  /\ phase = "mount"
  /\ LET r == LoadResult(localStorage, randomUUID)
     IN /\ debts' = r.debts
        /\ payments' = r.payments
        /\ localStorage' = r.store
        /\ phase' = IF r.crashed THEN "crashed"
                    ELSE IF r.set THEN "mountDebtsThenRender" ELSE "mountDebts"
        /\ nextId' = IF r.migrated THEN nextId + 1 ELSE nextId
  /\ last' = [op |-> "Load", migrated |-> LoadResult(localStorage, randomUUID).migrated]
  /\ UNCHANGED <<selectedDebtId, aiAnalysis, loadingAi, inflight, hasApiKey>>

\* The debts persistence effect of the first render: its closure holds the
\* initial debts, the empty array
MountDebtsEffect ==
  /\ phase \in {"mountDebts", "mountDebtsThenRender"}
  /\ localStorage' = DebtsEffect(localStorage, <<>>)
  /\ phase' = IF phase = "mountDebts" THEN "mountPayments" ELSE "mountPaymentsThenRender"
  /\ last' = [op |-> "MountDebtsEffect"]
  /\ UNCHANGED <<debts, payments, selectedDebtId, aiAnalysis, loadingAi, inflight, hasApiKey, nextId>>

\* The payments persistence effect of the first render, on the initial arrays
MountPaymentsEffect ==
  /\ phase \in {"mountPayments", "mountPaymentsThenRender"}
  /\ localStorage' = PaymentsEffect(localStorage, <<>>, <<>>)
  /\ phase' = IF phase = "mountPayments" THEN "ready" ELSE "renderDebts"
  /\ last' = [op |-> "MountPaymentsEffect"]
  /\ UNCHANGED <<debts, payments, selectedDebtId, aiAnalysis, loadingAi, inflight, hasApiKey, nextId>>

\* The debts persistence effect of the re-render with the loaded state
RenderDebtsEffect ==
  /\ phase = "renderDebts"
  /\ localStorage' = DebtsEffect(localStorage, debts)
  /\ phase' = "renderPayments"
  /\ last' = [op |-> "RenderDebtsEffect"]
  /\ UNCHANGED <<debts, payments, selectedDebtId, aiAnalysis, loadingAi, inflight, hasApiKey, nextId>>

\* The payments persistence effect of the re-render with the loaded state
RenderPaymentsEffect ==
  /\ phase = "renderPayments"
  /\ localStorage' = PaymentsEffect(localStorage, debts, payments)
  /\ phase' = "ready"
  /\ last' = [op |-> "RenderPaymentsEffect"]
  /\ UNCHANGED <<debts, payments, selectedDebtId, aiAnalysis, loadingAi, inflight, hasApiKey, nextId>>

\* The page is closed and opened again: the component state is constructed
\* anew, pending promises are gone, localStorage stays. (last keeps what was in
\* memory, and whether nothing but the load and its effects had run.)
Restart ==
  /\ phase \in {"ready", "crashed"}
  /\ debts' = <<>>
  /\ payments' = <<>>
  /\ selectedDebtId' = Null
  /\ aiAnalysis' = <<>>
  /\ loadingAi' = FALSE
  /\ inflight' = <<>>
  /\ phase' = "mount"
  /\ last' = [op |-> "Restart",
              afterLoad |-> last.op \in {"Load", "MountPaymentsEffect", "RenderPaymentsEffect"},
              debts |-> debts, payments |-> payments]
  /\ UNCHANGED <<localStorage, hasApiKey, nextId>>

----------------------------------------------------------------------------
\* Command handlers. A handler runs when the component is mounted and idle;
\* the render its state updates cause, and that render's persistence effects,
\* complete before the next event is handled.

\* A mutation or a selection change makes every pending advisory request stale
MarkStale(q) == [i \in 1..Len(q) |-> [q[i] EXCEPT !.stale = TRUE]]

NewDebt(newCreditor, newTotalDebt, newId) ==
  [id |-> newId,
   creditorName |-> newCreditor,
   totalAmount |-> parseFloat(newTotalDebt),
   startDate |-> NowIso]

\* `if (!newCreditor || !newTotalDebt) return;`
CreateDebtReturnsEarly(newCreditor, newTotalDebt) ==
  newCreditor = "" \/ newTotalDebt = ""

handleCreateDebt(newCreditor, newTotalDebt) ==
  /\ phase = "ready"
  /\ IF CreateDebtReturnsEarly(newCreditor, newTotalDebt)
     THEN /\ last' = [op |-> "handleCreateDebt", done |-> FALSE,
                      newCreditor |-> newCreditor, newTotalDebt |-> newTotalDebt]
          /\ UNCHANGED <<debts, localStorage, inflight, nextId>>
     ELSE /\ nextId <= MaxIds
          /\ debts' = Append(debts, NewDebt(newCreditor, newTotalDebt, randomUUID))
          /\ nextId' = nextId + 1
          /\ localStorage' = AfterDebtsChange(localStorage, debts', payments)
          /\ inflight' = MarkStale(inflight)
          /\ last' = [op |-> "handleCreateDebt", done |-> TRUE,
                      newCreditor |-> newCreditor, newTotalDebt |-> newTotalDebt]
  /\ UNCHANGED <<payments, selectedDebtId, aiAnalysis, loadingAi, hasApiKey, phase>>

\* setDebts / setPayments / setSelectedDebtId of a confirmed handleDeleteDebt
DeleteDebtDebts(ds, debtId) == FilterDebtsNot(ds, debtId)
\* (mutant) the cascade forgotten
DeleteDebtPaymentsKept(ps, debtId) == ps

DeleteDebtPayments(ps, debtId) == FilterPaymentsNotOfDebt(ps, debtId)

\* (mutant) the selection left on the deleted debt
DeleteDebtSelectionKept(sel, debtId) == sel

DeleteDebtSelection(sel, debtId) == IF sel = debtId THEN Null ELSE sel

\* confirmed: what window.confirm returned
handleDeleteDebt(debtId, confirmed) ==
  /\ phase = "ready"
  /\ IF confirmed
     THEN /\ debts' = DeleteDebtDebts(debts, debtId)
          /\ payments' = DeleteDebtPayments(payments, debtId)
          /\ selectedDebtId' = DeleteDebtSelection(selectedDebtId, debtId)
          /\ localStorage' = AfterDebtsChange(localStorage, debts', payments')
          /\ inflight' = MarkStale(inflight)
     ELSE UNCHANGED <<debts, payments, selectedDebtId, localStorage, inflight>>
  /\ last' = [op |-> "handleDeleteDebt", done |-> confirmed, debtId |-> debtId,
              removedPayments |-> Len(payments) - Len(payments'),
              wasSelected |-> confirmed /\ selectedDebtId = debtId]
  /\ UNCHANGED <<aiAnalysis, loadingAi, hasApiKey, nextId, phase>>

NewPayment(debtId, newPaymentAmount, newPaymentDate, newPaymentNote, newId) ==
  [id |-> newId,
   debtId |-> debtId,
   date |-> newPaymentDate,
   amount |-> parseFloat(newPaymentAmount),
   note |-> newPaymentNote]

\* `if (!newPaymentAmount || !selectedDebtId) return;`
AddPaymentReturnsEarly(newPaymentAmount, sel) ==
  newPaymentAmount = "" \/ sel = Null

handleAddPayment(newPaymentAmount, newPaymentDate, newPaymentNote) ==
  /\ phase = "ready"
  /\ IF AddPaymentReturnsEarly(newPaymentAmount, selectedDebtId)
     THEN /\ last' = [op |-> "handleAddPayment", done |-> FALSE,
                      newPaymentAmount |-> newPaymentAmount]
          /\ UNCHANGED <<payments, localStorage, aiAnalysis, inflight, nextId>>
     ELSE /\ nextId <= MaxIds
          /\ nextId' = nextId + 1
          /\ payments' = Append(payments,
                                NewPayment(selectedDebtId, newPaymentAmount,
                                           newPaymentDate, newPaymentNote, randomUUID))
          /\ localStorage' = AfterPaymentsChange(localStorage, debts, payments')
          /\ aiAnalysis' = <<>>
          /\ inflight' = MarkStale(inflight)
          /\ last' = [op |-> "handleAddPayment", done |-> TRUE,
                      newPaymentAmount |-> newPaymentAmount]
  /\ UNCHANGED <<debts, selectedDebtId, loadingAi, hasApiKey, phase>>

handleDeletePayment(id, confirmed) ==
  /\ phase = "ready"
  /\ IF confirmed
     THEN /\ payments' = FilterPaymentsNot(payments, id)
          /\ localStorage' = AfterPaymentsChange(localStorage, debts, payments')
          /\ aiAnalysis' = <<>>
          /\ inflight' = MarkStale(inflight)
     ELSE UNCHANGED <<payments, localStorage, aiAnalysis, inflight>>
  /\ last' = [op |-> "handleDeletePayment", done |-> confirmed, id |-> id]
  /\ UNCHANGED <<debts, selectedDebtId, loadingAi, hasApiKey, nextId, phase>>

\* `if (!selectedDebt || !editingTotalAmount) return;` and
\* `if (isNaN(newTotal) || newTotal <= 0) return;`
SaveTotalReturnsEarly(hasDebt, editingTotalAmount) ==
  \/ ~hasDebt
  \/ editingTotalAmount = ""
  \/ isNaN(parseFloat(editingTotalAmount))
  \/ LessOrEqualZero(parseFloat(editingTotalAmount))

\* (mutant) the total set in every debt
SaveTotalDebtsAll(ds, debtId, newTotal) ==
  [i \in 1..Len(ds) |-> [ds[i] EXCEPT !.totalAmount = newTotal]]

\* prev.map(d => d.id === selectedDebt.id ? { ...d, totalAmount: newTotal } : d)
SaveTotalDebts(ds, debtId, newTotal) ==
  [i \in 1..Len(ds) |->
     IF ds[i].id = debtId THEN [ds[i] EXCEPT !.totalAmount = newTotal] ELSE ds[i]]

handleSaveTotal(editingTotalAmount) ==
  /\ phase = "ready"
  /\ IF SaveTotalReturnsEarly(HasSelectedDebt, editingTotalAmount)
     THEN /\ last' = [op |-> "handleSaveTotal", done |-> FALSE,
                      editingTotalAmount |-> editingTotalAmount]
          /\ UNCHANGED <<debts, localStorage, aiAnalysis, inflight>>
     ELSE /\ debts' = SaveTotalDebts(debts, selectedDebtId, parseFloat(editingTotalAmount))
          /\ localStorage' = AfterDebtsChange(localStorage, debts', payments)
          /\ aiAnalysis' = <<>>
          /\ inflight' = MarkStale(inflight)
          /\ last' = [op |-> "handleSaveTotal", done |-> TRUE,
                      editingTotalAmount |-> editingTotalAmount]
  /\ UNCHANGED <<payments, selectedDebtId, loadingAi, hasApiKey, nextId, phase>>

----------------------------------------------------------------------------
\* Selection

\* Which of the three views the component returns
RenderedView ==
  IF Len(debts) = 0 THEN "empty"
  ELSE IF selectedDebtId = Null THEN "list"
  ELSE "detail"

\* onClick of a debt card of the list view: setSelectedDebtId(debt.id)
SelectDebt(debtId) ==
  /\ phase = "ready"
  /\ RenderedView = "list"
  /\ debtId \in DebtIds(debts)
  /\ selectedDebtId' = debtId
  /\ inflight' = MarkStale(inflight)
  /\ last' = [op |-> "SelectDebt", debtId |-> debtId]
  /\ UNCHANGED <<debts, payments, aiAnalysis, loadingAi, localStorage, hasApiKey, nextId, phase>>

\* onClick of the back button of the detail view: setSelectedDebtId(null)
BackToList ==
  /\ phase = "ready"
  /\ RenderedView = "detail"
  /\ selectedDebtId' = Null
  /\ inflight' = MarkStale(inflight)
  /\ last' = [op |-> "BackToList"]
  /\ UNCHANGED <<debts, payments, aiAnalysis, loadingAi, localStorage, hasApiKey, nextId, phase>>

----------------------------------------------------------------------------
\* Advisory call

NoKeyFallback ==
  [message |-> "Configura tu API Key para obtener consejos inteligentes.",
   tone |-> "neutral"]

FailureFallback ==
  [message |-> "No se pudo generar el analisis en este momento.",
   tone |-> "neutral"]

\* What generateContent can do: throw, answer without text, answer with text
\* that is no JSON, answer with JSON text (kept as the value it parses to)
ServiceThrows == [r |-> "throws"]
ServiceNoText == [r |-> "noText"]
ServiceBadText == [r |-> "badText"]
ServiceJson(v) == [r |-> "json", v |-> v]

GoodAdvice == [message |-> "Vas muy bien.", tone |-> "positive"]

\* JSON the service can also answer with: a tone outside the three, no tone
OddToneAdvice == [message |-> "Vas muy bien.", tone |-> "happy"]
NoToneAdvice == [message |-> "Vas muy bien."]

ServiceResponses ==
  {ServiceThrows, ServiceNoText, ServiceBadText,
   ServiceJson(GoodAdvice), ServiceJson(OddToneAdvice), ServiceJson(NoToneAdvice)}

\* The try block of analyzeDebtProgress, given what the service did
analyzeDebtProgress(response) ==
  IF response.r = "json" THEN response.v ELSE FailureFallback

\* The result as held in aiAnalysis, with the request it answers
Cached(result, request) ==
  <<[result |-> result, forDebt |-> request.debtId, late |-> request.stale]>>

\* handleGetAnalysis up to its await. Without an API key the promise is
\* already resolved and the rest of the handler runs before any other event.
handleGetAnalysis ==
  /\ phase = "ready"
  /\ IF ~HasSelectedDebt
     THEN /\ last' = [op |-> "handleGetAnalysis", done |-> FALSE]
          /\ UNCHANGED <<aiAnalysis, loadingAi, inflight>>
     ELSE /\ last' = [op |-> "handleGetAnalysis", done |-> TRUE]
          /\ IF ~hasApiKey
             THEN /\ aiAnalysis' = Cached(NoKeyFallback,
                                          [debtId |-> selectedDebtId, stale |-> FALSE])
                  /\ loadingAi' = FALSE
                  /\ UNCHANGED inflight
             ELSE /\ Len(inflight) < MaxInFlight
                  /\ loadingAi' = TRUE
                  /\ inflight' = Append(inflight, [debtId |-> selectedDebtId, stale |-> FALSE])
                  /\ UNCHANGED aiAnalysis
  /\ UNCHANGED <<debts, payments, selectedDebtId, localStorage, hasApiKey, nextId, phase>>

\* The rest of handleGetAnalysis, when the promise of request i resolves
AnalysisArrives(i, response) ==
  /\ phase = "ready"
  /\ i \in 1..Len(inflight)
  /\ aiAnalysis' = Cached(analyzeDebtProgress(response), inflight[i])
  /\ loadingAi' = FALSE
  /\ inflight' = [j \in 1..(Len(inflight) - 1) |->
                    IF j < i THEN inflight[j] ELSE inflight[j + 1]]
  /\ last' = [op |-> "AnalysisArrives", late |-> inflight[i].stale]
  /\ UNCHANGED <<debts, payments, selectedDebtId, localStorage, hasApiKey, nextId, phase>>

\* onClick of "Cerrar", shown in the detail view while a result is held:
\* setAiAnalysis(null)
CloseAnalysis ==
  /\ phase = "ready"
  /\ RenderedView = "detail"
  /\ aiAnalysis # <<>>
  /\ aiAnalysis' = <<>>
  /\ last' = [op |-> "CloseAnalysis"]
  /\ UNCHANGED <<debts, payments, selectedDebtId, loadingAi, inflight, localStorage,
                 hasApiKey, nextId, phase>>

----------------------------------------------------------------------------
\* Initial states

EmptyStore == [key \in StorageKeys |-> NoItem]

\* A legacy settings record and legacy payments (records without debtId)
LegacyConfigured ==
  [isSet |-> TRUE, creditorName |-> "Ana", totalAmount |-> Fin(5),
   startDate |-> "2024-01-01"]

LegacyUnconfigured ==
  [isSet |-> FALSE, creditorName |-> "", totalAmount |-> Fin(0), startDate |-> ""]

LegacyPaymentList ==
  <<[id |-> 101, date |-> "2024-02-01", amount |-> Fin(1), note |-> ""],
    [id |-> 102, date |-> "2024-01-15", amount |-> Fin(2), note |-> "x"]>>

LegacyStore(ls, lp) ==
  [EmptyStore EXCEPT ![LEGACY_STORAGE_SETTINGS] = ls, ![LEGACY_STORAGE_PAYMENTS] = lp]

\* The stores a first start can find with legacy content (no current-version
\* keys yet), one of each kind
LegacyStores ==
  {LegacyStore(JsonText(LegacyConfigured), JsonText(LegacyPaymentList)),
   LegacyStore(JsonText(LegacyConfigured), NoItem),
   LegacyStore(JsonText(LegacyConfigured), BadText),
   LegacyStore(JsonText(LegacyUnconfigured), JsonText(LegacyPaymentList)),
   LegacyStore(BadText, JsonText(LegacyPaymentList)),
   LegacyStore(NoItem, JsonText(LegacyPaymentList))}

\* What the current-version keys can hold from earlier sessions
StoredDebt ==
  [id |-> 201, creditorName |-> "Luz", totalAmount |-> Fin(10), startDate |-> "2024-01-01"]

\* a debt whose total was NaN or Infinity when it was written
StoredDebtNullTotal ==
  [id |-> 202, creditorName |-> "Eva", totalAmount |-> JsonNull, startDate |-> "2024-01-01"]

StoredPayment(id, debtId) ==
  [id |-> id, debtId |-> debtId, date |-> "2024-02-01", amount |-> Fin(3), note |-> ""]

StoredDebtsItems ==
  {NoItem, BadText, JsonText(<<>>), JsonText(<<StoredDebt>>),
   JsonText(<<StoredDebt, StoredDebtNullTotal>>)}

\* the last one: the payment of a debt deleted as the last debt (C2)
StoredPaymentsItems ==
  {NoItem, BadText, JsonText(<<>>), JsonText(<<StoredPayment(211, 201)>>),
   JsonText(<<StoredPayment(212, 203)>>)}

LegacySettingsItems ==
  {NoItem, BadText, JsonText(LegacyConfigured), JsonText(LegacyUnconfigured)}

LegacyPaymentsItems == {NoItem, BadText, JsonText(LegacyPaymentList)}

\* Every combination of these under the four keys
StoredStores ==
  {[key \in StorageKeys |->
      CASE key = STORAGE_KEY_DEBTS -> sd
        [] key = STORAGE_KEY_PAYMENTS -> sp
        [] key = LEGACY_STORAGE_SETTINGS -> ls
        [] key = LEGACY_STORAGE_PAYMENTS -> lp] :
     sd \in StoredDebtsItems, sp \in StoredPaymentsItems,
     ls \in LegacySettingsItems, lp \in LegacyPaymentsItems}

\* The component as constructed (the useState initial values), before its
\* mount effects
Constructed ==
  /\ debts = <<>>
  /\ payments = <<>>
  /\ selectedDebtId = Null
  /\ aiAnalysis = <<>>
  /\ loadingAi = FALSE
  /\ inflight = <<>>
  /\ phase = "mount"
  /\ nextId = 1
  /\ last = [op |-> "none"]

\* A first start on an empty store
Init ==
  /\ Constructed
  /\ localStorage = EmptyStore
  /\ hasApiKey = FALSE

\* A first start on a store with legacy content
InitLegacy ==
  /\ Constructed
  /\ localStorage \in LegacyStores
  /\ hasApiKey = FALSE

\* A start on any of the stores above
InitStored ==
  /\ Constructed
  /\ localStorage \in StoredStores
  /\ hasApiKey = FALSE

\* A first start on an empty store, with or without an API key
InitAdvice ==
  /\ Constructed
  /\ localStorage = EmptyStore
  /\ hasApiKey \in BOOLEAN

----------------------------------------------------------------------------
\* Inputs

PaymentDates == {"2024-02-01"}
PaymentNotes == {""}

\* An id no debt or payment has
AbsentId == randomUUID

DebtIdArgs == DebtIds(debts) \cup {AbsentId}
PaymentIdArgs == PaymentIds(payments) \cup {AbsentId}

Startup ==
  \/ Load
  \/ MountDebtsEffect
  \/ MountPaymentsEffect
  \/ RenderDebtsEffect
  \/ RenderPaymentsEffect

\* The mount effects of a start that finds nothing to load
FirstStart ==
  \/ Load
  \/ MountDebtsEffect
  \/ MountPaymentsEffect

Selection ==
  \/ \E debtId \in DebtIds(debts) : SelectDebt(debtId)
  \/ BackToList

\* The commands, on the form strings given; the creating ones while the ids
\* up to lastId are not used up
Commands(creditors, totals, edits, amounts, lastId) ==
  \/ \E c \in creditors, t \in totals : nextId <= lastId /\ handleCreateDebt(c, t)
  \/ \E debtId \in DebtIdArgs, confirmed \in BOOLEAN : handleDeleteDebt(debtId, confirmed)
  \/ \E a \in amounts, d \in PaymentDates, n \in PaymentNotes :
        nextId <= lastId /\ handleAddPayment(a, d, n)
  \/ \E id \in PaymentIdArgs, confirmed \in BOOLEAN : handleDeletePayment(id, confirmed)
  \/ \E t \in edits : handleSaveTotal(t)

Advice ==
  \/ handleGetAnalysis
  \/ \E i \in 1..MaxInFlight, response \in ServiceResponses : AnalysisArrives(i, response)
  \/ CloseAnalysis

\* Form strings: the ones a filled-in form holds (and an empty name), and any
WellFormedCreditors == {"", "Ana"}
WellFormedTotals == {"10"}
WellFormedEdits == {"4"}
WellFormedAmounts == {"6"}

\* The amounts of a debt of 1000 paid off in three payments, on two dates
DerivedTotals == {"1000"}
DerivedEdits == {"400"}
DerivedAmounts == {"200", "300", "600"}
DerivedDates == {"2024-02-01", "2024-01-15"}

AnyCreditors == {"", "Ana"}
AnyTotals == {"", "abc", "0", "-5", "Infinity", "10"}
AnyAmounts == {"", "abc", "0", "-5", "6"}

----------------------------------------------------------------------------
\* Spec: the store's life from an empty store: well-formed commands, restarts

Next ==
  \/ Startup
  \/ Restart
  \/ Selection
  \/ Commands(WellFormedCreditors, WellFormedTotals, WellFormedEdits, WellFormedAmounts,
              MaxIds)

Spec == Init /\ [][Next]_vars

\* SpecLegacy: the same from a store with legacy content, with one id fewer to
\* give out
NextLegacy ==
  \/ Startup
  \/ Restart
  \/ Selection
  \/ Commands(WellFormedCreditors, WellFormedTotals, WellFormedEdits, WellFormedAmounts,
              MaxIds - 1)

SpecLegacy == InitLegacy /\ [][NextLegacy]_vars

\* SpecLoad: starts and restarts on any store content, with no user event
NextLoad ==
  \/ Startup
  \/ Restart

SpecLoad == InitStored /\ [][NextLoad]_vars

\* SpecDerived: debts, dated payments and edits of the total, for the derived
\* data
NextDerived ==
  \/ FirstStart
  \/ Selection
  \/ \E t \in DerivedTotals : nextId <= MaxIds /\ handleCreateDebt("Ana", t)
  \/ \E a \in DerivedAmounts, d \in DerivedDates, n \in PaymentNotes :
        nextId <= MaxIds /\ handleAddPayment(a, d, n)
  \/ \E t \in DerivedEdits : handleSaveTotal(t)

SpecDerived == Init /\ [][NextDerived]_vars

\* SpecInput: the creating and editing handlers on any form strings, with
\* one id fewer to give out
NextInput ==
  \/ FirstStart
  \/ Selection
  \/ \E c \in AnyCreditors, t \in AnyTotals : nextId < MaxIds /\ handleCreateDebt(c, t)
  \/ \E a \in AnyAmounts, d \in PaymentDates, n \in PaymentNotes :
        nextId < MaxIds /\ handleAddPayment(a, d, n)
  \/ \E t \in AnyTotals : handleSaveTotal(t)
  \/ handleGetAnalysis

SpecInput == Init /\ [][NextInput]_vars

\* SpecAdvice: well-formed commands and the advisory call, with one id fewer
\* to give out
NextAdvice ==
  \/ FirstStart
  \/ Selection
  \/ Commands(WellFormedCreditors, WellFormedTotals, WellFormedEdits, WellFormedAmounts,
              MaxIds - 1)
  \/ Advice

SpecAdvice == InitAdvice /\ [][NextAdvice]_vars

----------------------------------------------------------------------------
\* Properties

CommandOps == {"handleCreateDebt", "handleDeleteDebt", "handleAddPayment",
               "handleDeletePayment", "handleSaveTotal"}

\* The step recorded in l was a command that reached its state updates
CommandDone(l) == l.op \in CommandOps /\ l.done

\* The collection a key holds, the empty one when the key is absent
Persisted(key) ==
  IF localStorage[key].t = "json" THEN localStorage[key].v ELSE <<>>

\* C1: a result that arrives after a command or a selection change that
\* followed its dispatch is discarded: the cache never holds such a result.
C1_StaleResultDiscarded ==
  aiAnalysis # <<>> => ~aiAnalysis[1].late

\* C2: once the component has settled, every payment's debtId is the id of a
\* debt, in memory and in the persisted collections.
C2_NoOrphanPayments ==
  phase = "ready" =>
    /\ PaymentDebtIds(payments) \subseteq DebtIds(debts)
    /\ PaymentDebtIds(Persisted(STORAGE_KEY_PAYMENTS))
         \subseteq DebtIds(Persisted(STORAGE_KEY_DEBTS))

\* C3: a command that empties debts leaves the empty collection under the
\* debts key, and one that empties payments leaves it under the payments key.
C3_EmptyCollectionsWritten ==
  [][CommandDone(last') =>
       /\ (debts # <<>> /\ debts' = <<>>)
            => localStorage'[STORAGE_KEY_DEBTS] = JsonText(<<>>)
       /\ (payments # <<>> /\ payments' = <<>>)
            => localStorage'[STORAGE_KEY_PAYMENTS] = JsonText(<<>>)]_vars

\* C4: a confirmed handleDeleteDebt(d) leaves exactly the debts other than d
\* and the payments of other debts, in their order; and no step at all takes
\* a debt away while leaving one of its payments in memory.
C4_DeleteDebtCascades ==
  [][/\ (last'.op = "handleDeleteDebt" /\ last'.done) =>
          /\ last'.debtId \notin DebtIds(debts')
          /\ last'.debtId \notin PaymentDebtIds(payments')
          /\ debts' = SelectSeq(debts, LAMBDA d : d.id # last'.debtId)
          /\ payments' = SelectSeq(payments, LAMBDA q : q.debtId # last'.debtId)
     /\ \A d \in DebtIds(debts) \ DebtIds(debts') : d \notin PaymentDebtIds(payments')]_vars

\* A debt with payments was deleted, and another debt and its payment remain
C4_Witness ==
  /\ last.op = "handleDeleteDebt"
  /\ last.done
  /\ last.removedPayments > 0
  /\ debts # <<>>
  /\ payments # <<>>

\* C5: every debt's totalAmount and every payment's amount is strictly
\* positive.
C5_AmountsPositive ==
  /\ \A i \in 1..Len(debts) : GreaterThanZero(debts[i].totalAmount)
  /\ \A i \in 1..Len(payments) : GreaterThanZero(payments[i].amount)

\* C6: handleCreateDebt changes nothing when the name is empty or the total is
\* no positive number; otherwise it appends one debt with a new id, the name
\* and the amount, and leaves the other debts and the payments as they were.
C6_CreateDebtValidates ==
  [][last'.op = "handleCreateDebt" =>
       IF last'.newCreditor = "" \/ ~GreaterThanZero(parseFloat(last'.newTotalDebt))
       THEN debts' = debts /\ payments' = payments
       ELSE /\ Len(debts') = Len(debts) + 1
            /\ SubSeq(debts', 1, Len(debts)) = debts
            /\ debts'[Len(debts')].id \notin DebtIds(debts)
            /\ debts'[Len(debts')].creditorName = last'.newCreditor
            /\ debts'[Len(debts')].totalAmount = parseFloat(last'.newTotalDebt)
            /\ payments' = payments]_vars

\* C7: handleAddPayment changes nothing when the amount is not positive or no
\* existing debt is selected; otherwise it appends one payment of the selected
\* debt and leaves the debts and the other payments as they were.
C7_AddPaymentValidates ==
  [][last'.op = "handleAddPayment" =>
       IF \/ ~GreaterThanZero(parseFloat(last'.newPaymentAmount))
          \/ selectedDebtId \notin DebtIds(debts)
       THEN debts' = debts /\ payments' = payments
       ELSE /\ Len(payments') = Len(payments) + 1
            /\ SubSeq(payments', 1, Len(payments)) = payments
            /\ payments'[Len(payments')].debtId = selectedDebtId
            /\ debts' = debts]_vars

FinitePositive(x) == x.k = "fin" /\ x.n > 0

\* C8: handleSaveTotal with a total that is no finite positive number changes
\* neither the debts, the payments, the store nor the advisory cache.
C8_SaveTotalValidates ==
  [][(last'.op = "handleSaveTotal"
        /\ ~FinitePositive(parseFloat(last'.editingTotalAmount)))
       => /\ debts' = debts
          /\ payments' = payments
          /\ localStorage' = localStorage
          /\ aiAnalysis' = aiAnalysis]_vars

\* C9: after every command that reached its state updates the advisory cache
\* is empty.
C9_CommandsInvalidateCache ==
  CommandDone(last) => aiAnalysis = <<>>

\* C10: a first load that finds no debts key, configured legacy settings and a
\* readable (or no) legacy payment list yields one debt with the legacy fields
\* and the legacy payments, in order, tagged with that debt's id; both are
\* stored under the current keys in that step; no step changes a legacy key.
MigrationApplies ==
  /\ phase = "mount"
  /\ ~Truthy(localStorage[STORAGE_KEY_DEBTS])
  /\ localStorage[LEGACY_STORAGE_SETTINGS].t = "json"
  /\ localStorage[LEGACY_STORAGE_SETTINGS].v.isSet
  /\ localStorage[LEGACY_STORAGE_PAYMENTS].t \in {"none", "json"}

C10_Migration ==
  [][/\ localStorage'[LEGACY_STORAGE_SETTINGS] = localStorage[LEGACY_STORAGE_SETTINGS]
     /\ localStorage'[LEGACY_STORAGE_PAYMENTS] = localStorage[LEGACY_STORAGE_PAYMENTS]
     /\ (last'.op = "Load" /\ MigrationApplies) =>
          LET old == localStorage[LEGACY_STORAGE_SETTINGS].v
              oldPayments == Persisted(LEGACY_STORAGE_PAYMENTS)
          IN /\ Len(debts') = 1
             /\ debts'[1].creditorName = old.creditorName
             /\ debts'[1].totalAmount = old.totalAmount
             /\ debts'[1].startDate = old.startDate
             /\ Len(payments') = Len(oldPayments)
             /\ \A i \in 1..Len(oldPayments) :
                  /\ payments'[i].id = oldPayments[i].id
                  /\ payments'[i].date = oldPayments[i].date
                  /\ payments'[i].amount = oldPayments[i].amount
                  /\ payments'[i].note = oldPayments[i].note
                  /\ payments'[i].debtId = debts'[1].id
             /\ localStorage'[STORAGE_KEY_DEBTS] = JsonText(debts')
             /\ localStorage'[STORAGE_KEY_PAYMENTS] = JsonText(payments')]_vars

\* The migration has just run on a legacy list of two payments
C10_Witness ==
  /\ last.op = "Load"
  /\ last.migrated
  /\ Len(debts) = 1
  /\ Len(payments) = 2
  /\ localStorage[STORAGE_KEY_PAYMENTS] = JsonText(payments)

\* The legacy settings or the legacy payments hold text that is no JSON
LegacyUnreadable ==
  \/ localStorage[LEGACY_STORAGE_SETTINGS].t = "bad"
  \/ localStorage[LEGACY_STORAGE_PAYMENTS].t = "bad"

\* C11: a load that finds no debts key and legacy settings or legacy payments
\* that do not parse does not throw, sets no debt and no payment, gives out no
\* id and writes nothing; the mount effects that follow it write nothing.
C11_MigrationFailureDegrades ==
  [][/\ (last'.op = "Load" /\ ~Truthy(localStorage[STORAGE_KEY_DEBTS])
           /\ Truthy(localStorage[LEGACY_STORAGE_SETTINGS]) /\ LegacyUnreadable)
         => /\ phase' # "crashed"
            /\ ~last'.migrated
            /\ debts' = <<>>
            /\ payments' = <<>>
            /\ localStorage' = localStorage
     /\ (last'.op \in {"MountDebtsEffect", "MountPaymentsEffect"}
           /\ ~Truthy(localStorage[STORAGE_KEY_DEBTS]) /\ LegacyUnreadable)
         => /\ debts' = <<>>
            /\ payments' = <<>>
            /\ localStorage' = localStorage]_vars

\* A load has read configured legacy settings and an unreadable legacy
\* payment list, and has set nothing
C11_Witness ==
  /\ last.op = "Load"
  /\ phase = "mountDebts"
  /\ localStorage[LEGACY_STORAGE_SETTINGS] = JsonText(LegacyConfigured)
  /\ localStorage[LEGACY_STORAGE_PAYMENTS] = BadText
  /\ ~Truthy(localStorage[STORAGE_KEY_DEBTS])
  /\ debts = <<>>

\* C12: a load that finds the debts key, the empty collection included, sets
\* debts and payments to the stored collections, runs no migration and writes
\* nothing; the debts key, once there, stays, so a migration never runs twice.
C12_CurrentKeyWins ==
  [][/\ (last'.op = "Load" /\ Truthy(localStorage[STORAGE_KEY_DEBTS]))
         => /\ ~last'.migrated
            /\ debts' = Persisted(STORAGE_KEY_DEBTS)
            /\ payments' = Persisted(STORAGE_KEY_PAYMENTS)
            /\ nextId' = nextId
            /\ localStorage' = localStorage
     /\ Truthy(localStorage[STORAGE_KEY_DEBTS]) => Truthy(localStorage'[STORAGE_KEY_DEBTS])]_vars

\* A restart after the migrated debt was deleted: the load found the emptied
\* debts key beside the configured legacy settings and recreated nothing
C12_Witness ==
  /\ last.op = "Load"
  /\ ~last.migrated
  /\ phase = "mountDebtsThenRender"
  /\ localStorage[STORAGE_KEY_DEBTS] = JsonText(<<>>)
  /\ localStorage[LEGACY_STORAGE_SETTINGS] = JsonText(LegacyConfigured)
  /\ debts = <<>>


\* C13: a load that follows a restart taken when nothing but a load and its
\* persistence effects had run sets the debts and payments that load had set.
C13_LoadIdempotent ==
  [][(last.op = "Restart" /\ last.afterLoad /\ last'.op = "Load")
       => /\ debts' = last.debts
          /\ payments' = last.payments]_vars

\* A load after the restart that followed the migrating load: it read back the
\* migrated debt and its two payments
C13_Witness ==
  /\ last.op = "Load"
  /\ ~last.migrated
  /\ nextId = 2
  /\ DebtIds(debts) = {1}
  /\ Len(payments) = 2
  /\ PaymentDebtIds(payments) = {1}

\* x >= 0 and x <= 100 in JavaScript (false for NaN)
AtLeastZero(x) == x.k = "inf" \/ (x.k \in {"fin", "null"} /\ x.n >= 0)
AtMostHundred(x) == x.k = "ninf" \/ (x.k \in {"fin", "null"} /\ x.n <= 100)

\* C14: for every debt the remaining amount is at least 0 and the progress
\* percentage at most 100, on its dashboard card and, when it is the selected
\* debt, in the detail view.
C14_DerivedClamped ==
  /\ \A i \in 1..Len(debts) :
       /\ AtLeastZero(CardRemaining(debts[i]))
       /\ AtMostHundred(CardPct(debts[i]))
  /\ HasSelectedDebt =>
       /\ AtLeastZero(remainingDebt)
       /\ AtMostHundred(progressPercentage)

\* The sum of the amounts of the payments at the indices in S (finite amounts)
RECURSIVE SumOfAmounts(_)
SumOfAmounts(S) ==
  IF S = {} THEN 0
  ELSE LET j == CHOOSE j \in S : TRUE
       IN payments[j].amount.n + SumOfAmounts(S \ {j})

PaidTo(debtId) == SumOfAmounts({j \in 1..Len(payments) : payments[j].debtId = debtId})

\* The amounts paid to a debt, in the order of the payments
AmountsPaidTo(debtId) ==
  LET ps == SelectSeq(payments, LAMBDA q : q.debtId = debtId)
  IN [j \in 1..Len(ps) |-> ps[j].amount.n]

\* C15: for every debt, with p the sum of the amounts of exactly its payments
\* and t its total: the card shows paid p, remaining max(0, t - p) and
\* percentage min(100, p / t * 100), and the detail view of the selected debt
\* shows the same three values; 1000 with 200 and 300 gives 500 / 500 / 50, and
\* with a further 600 gives 1100 / 0 / 100.
C15_DerivedValues ==
  \A i \in 1..Len(debts) :
    LET debt == debts[i]
        t == debt.totalAmount.n
        paid == PaidTo(debt.id)
    IN /\ CardPaid(debt) = Fin(paid)
       /\ CardRemaining(debt) = Fin(IF t - paid > 0 THEN t - paid ELSE 0)
       /\ CardPct(debt) = Fin(IF paid >= t THEN 100 ELSE (paid * 100) \div t)
       /\ debt.id = selectedDebtId =>
            /\ totalPaid = CardPaid(debt)
            /\ remainingDebt = CardRemaining(debt)
            /\ progressPercentage = CardPct(debt)
       /\ (t = 1000 /\ AmountsPaidTo(debt.id) = <<200, 300>>) =>
            /\ CardPaid(debt) = Fin(500)
            /\ CardRemaining(debt) = Fin(500)
            /\ CardPct(debt) = Fin(50)
       /\ (t = 1000 /\ AmountsPaidTo(debt.id) = <<200, 300, 600>>) =>
            /\ CardPaid(debt) = Fin(1100)
            /\ CardRemaining(debt) = Fin(0)
            /\ CardPct(debt) = Fin(100)

\* The selected debt of 1000 has been paid 200, 300 and 600
C15_Witness ==
  /\ HasSelectedDebt
  /\ selectedDebt.totalAmount = Fin(1000)
  /\ AmountsPaidTo(selectedDebtId) = <<200, 300, 600>>
  /\ totalPaid = Fin(1100)
  /\ remainingDebt = Fin(0)
  /\ progressPercentage = Fin(100)

\* a <= b in JavaScript (false when either is NaN)
LessOrEqual(a, b) ==
  LET x == ToNumber(a)
      y == ToNumber(b)
  IN /\ x.k # "nan"
     /\ y.k # "nan"
     /\ \/ x.k = "ninf"
        \/ y.k = "inf"
        \/ (x.k = "fin" /\ y.k = "fin" /\ x.n <= y.n)

\* C16: the balance history of the selected debt has one point more than the
\* debt has payments, and no point's balance is above the one before it.
C16_HistoryMonotone ==
  HasSelectedDebt =>
    /\ Len(chartData) = Len(currentDebtPayments) + 1
    /\ \A i \in 1..(Len(chartData) - 1) :
         LessOrEqual(chartData[i + 1].balance, chartData[i].balance)

\* The calendar order of the payment dates
DatesInOrder == <<"2024-01-01", "2024-01-15", "2024-02-01">>
DayIndex(date) == CHOOSE k \in 1..Len(DatesInOrder) : DatesInOrder[k] = date

\* The selected debt's payments, as indices into payments
PaymentsOfSelected == {j \in 1..Len(payments) : payments[j].debtId = selectedDebtId}

\* The place of payment j among them: by date, equal dates by insertion order
PlaceInHistory(j) ==
  1 + Cardinality({k \in PaymentsOfSelected :
                     \/ DayIndex(payments[k].date) < DayIndex(payments[j].date)
                     \/ (payments[k].date = payments[j].date /\ k < j)})

\* C17: the balance history of the selected debt starts with the point
\* {balance: totalAmount, paid: 0} at the start date; the payment at place n by
\* date (equal dates by insertion order) gives point n + 1, with its amount as
\* paid and max(0, totalAmount - the amounts up to it) as balance; the last
\* balance is the remaining amount; with no payment there is the one point.
C17_HistoryContents ==
  HasSelectedDebt =>
    LET t == selectedDebt.totalAmount.n
    IN /\ Len(chartData) = Cardinality(PaymentsOfSelected) + 1
       /\ chartData[1] = [date |-> formatDate(selectedDebt.startDate),
                          balance |-> Fin(t), paid |-> Fin(0)]
       /\ \A j \in PaymentsOfSelected :
            LET point == chartData[1 + PlaceInHistory(j)]
                paidSoFar == SumOfAmounts({k \in PaymentsOfSelected :
                                             PlaceInHistory(k) <= PlaceInHistory(j)})
            IN /\ point.paid = payments[j].amount
               /\ point.date = formatDate(payments[j].date)
               /\ point.balance = Fin(IF t - paidSoFar > 0 THEN t - paidSoFar ELSE 0)
       /\ chartData[Len(chartData)].balance = remainingDebt
       /\ PaymentsOfSelected = {} => Len(chartData) = 1

\* Payments of 200 and 600 on 1 February and, entered between them, 300 on
\* 15 January: the history is 1000, 700 (300), 500 (200), 0 (600)
C17_Witness ==
  /\ HasSelectedDebt
  /\ [j \in 1..Len(currentDebtPayments) |-> currentDebtPayments[j].date]
       = <<"2024-02-01", "2024-01-15", "2024-02-01">>
  /\ AmountsPaidTo(selectedDebtId) = <<200, 300, 600>>
  /\ [j \in 1..Len(chartData) |-> chartData[j].balance.n] = <<1000, 700, 500, 0>>
  /\ [j \in 1..Len(chartData) |-> chartData[j].paid.n] = <<0, 300, 200, 600>>

\* C18: a confirmed handleDeletePayment(id) of an existing payment leaves the
\* other payments, in their order, and the debts; with an id no payment has,
\* or declined, it leaves debts, payments and the store as they were.
C18_DeletePaymentFrame ==
  [][last'.op = "handleDeletePayment" =>
       IF last'.done /\ last'.id \in PaymentIds(payments)
       THEN /\ payments' = SelectSeq(payments, LAMBDA q : q.id # last'.id)
            /\ Len(payments') = Len(payments) - 1
            /\ debts' = debts
       ELSE /\ debts' = debts
            /\ payments' = payments
            /\ localStorage' = localStorage]_vars

\* A payment has been deleted (its id was given out before) and another one
\* is still there
C18_Witness ==
  /\ last.op = "handleDeletePayment"
  /\ last.done
  /\ last.id < nextId
  /\ last.id \notin PaymentIds(payments)
  /\ payments # <<>>

\* C20: a handleSaveTotal that reaches its state update keeps the number and
\* order of the debts, changes in the selected debt the totalAmount alone, and
\* leaves every other debt, every payment and the selection as they were.
C20_SaveTotalFrame ==
  [][(last'.op = "handleSaveTotal" /\ last'.done) =>
       /\ Len(debts') = Len(debts)
       /\ \A i \in 1..Len(debts) :
            IF debts[i].id = selectedDebtId
            THEN /\ debts'[i].id = debts[i].id
                 /\ debts'[i].creditorName = debts[i].creditorName
                 /\ debts'[i].startDate = debts[i].startDate
                 /\ debts'[i].totalAmount = parseFloat(last'.editingTotalAmount)
                 /\ DOMAIN debts'[i] = DOMAIN debts[i]
            ELSE debts'[i] = debts[i]
       /\ payments' = payments
       /\ selectedDebtId' = selectedDebtId]_vars

\* The total of the selected debt was set to 4 after 6 had been paid, and
\* there is a second debt
C20_Witness ==
  /\ last.op = "handleSaveTotal"
  /\ last.done
  /\ Len(debts) = 2
  /\ HasSelectedDebt
  /\ selectedDebt.totalAmount = Fin(4)
  /\ totalPaid = Fin(6)
  /\ \E i \in 1..Len(debts) : debts[i].totalAmount = Fin(10)

\* A result with a message and one of the three tones
WellShaped(result) ==
  /\ {"message", "tone"} \subseteq DOMAIN result
  /\ result.tone \in {"positive", "neutral", "concerned"}

\* C19: without an API key no request is made and the result is the neutral
\* fallback; a service call that throws or gives no text or text that is no
\* JSON gives the neutral fallback; every result held has a message and one
\* of the three tones.
C19_AdviceWellShaped ==
  /\ ~hasApiKey =>
       /\ inflight = <<>>
       /\ aiAnalysis # <<>> => aiAnalysis[1].result = NoKeyFallback
  /\ \A response \in {ServiceThrows, ServiceNoText, ServiceBadText} :
       /\ WellShaped(analyzeDebtProgress(response))
       /\ analyzeDebtProgress(response).tone = "neutral"
  /\ aiAnalysis # <<>> => WellShaped(aiAnalysis[1].result)

\* The selection is empty or the id of a debt
SelectionValid == selectedDebtId = Null \/ selectedDebtId \in DebtIds(debts)

\* C21: the selection is always empty or the id of a debt there is; a
\* confirmed handleDeleteDebt of the selected debt empties it and one of
\* another debt leaves it; a step that takes the selected debt away empties it.
C21_SelectionValid ==
  /\ []SelectionValid
  /\ [][/\ (last'.op = "handleDeleteDebt" /\ last'.done) =>
             selectedDebtId' = IF selectedDebtId = last'.debtId THEN Null
                               ELSE selectedDebtId
        /\ (selectedDebtId \in DebtIds(debts) \ DebtIds(debts')) =>
             selectedDebtId' = Null]_vars

\* The selected debt has been deleted: the selection is empty and another
\* debt is left
C21_Witness ==
  /\ last.op = "handleDeleteDebt"
  /\ last.done
  /\ last.wasSelected
  /\ selectedDebtId = Null
  /\ debts # <<>>

StartupOps == {"Load", "MountDebtsEffect", "MountPaymentsEffect",
               "RenderDebtsEffect", "RenderPaymentsEffect"}

\* The collection a store holds under a key, the empty one when it is absent
CollectionIn(store, key) == IF store[key].t = "json" THEN store[key].v ELSE <<>>

\* C22: in a startup that finds a collection under the debts key, the load
\* and the effect that follows it leave the persisted debts as they were, no
\* step changes the persisted payments, and when the startup has settled the
\* persisted collections are the loaded ones.
C22_StartupKeepsStore ==
  [][(last'.op \in StartupOps /\ localStorage[STORAGE_KEY_DEBTS].t = "json")
       => /\ CollectionIn(localStorage', STORAGE_KEY_PAYMENTS)
               = CollectionIn(localStorage, STORAGE_KEY_PAYMENTS)
          /\ (last'.op = "Load" \/ (last.op = "Load" /\ ~last.migrated))
               => CollectionIn(localStorage', STORAGE_KEY_DEBTS)
                    = CollectionIn(localStorage, STORAGE_KEY_DEBTS)
          /\ phase' = "ready"
               => /\ CollectionIn(localStorage', STORAGE_KEY_DEBTS) = debts'
                  /\ CollectionIn(localStorage', STORAGE_KEY_PAYMENTS) = payments']_vars

\* C23: a cached result held while a debt is selected was computed for that
\* debt.
C23_CacheOfSelectedDebt ==
  (aiAnalysis # <<>> /\ HasSelectedDebt) => aiAnalysis[1].forDebt = selectedDebtId

\* C24: in every settled state with at least one debt the persisted debts and
\* payments are the ones in memory, and the load of a restart would set
\* exactly these debts and payments, in this order.
C24_PersistedIsMemory ==
  (phase = "ready" /\ debts # <<>>) =>
    /\ CollectionIn(localStorage, STORAGE_KEY_DEBTS) = debts
    /\ CollectionIn(localStorage, STORAGE_KEY_PAYMENTS) = payments
    /\ ~LoadResult(localStorage, randomUUID).crashed
    /\ LoadResult(localStorage, randomUUID).debts = debts
    /\ LoadResult(localStorage, randomUUID).payments = payments

====
